---- MODULE Spec2Model ----
(***************************************************************************)
(* WooCommerce Sync Coordinator (agents/woocommerce_sync_coordinator.py):  *)
(* the classifier analyze_request, the relevance filter, the idempotence   *)
(* check already_responded and the dispatch loop process_issues, run       *)
(* against an issue tracker whose calls may fail.                          *)
(*                                                                         *)
(* Text is a sequence of one-character strings, so that lower-casing and   *)
(* Python's substring test `in` are computed, not assumed.  An optional    *)
(* string (issue.body is None for an issue without a description) is a     *)
(* sequence of length at most one: None is <<>>, a string s is <<s>>.      *)
(***************************************************************************)
EXTENDS Integers, Sequences, FiniteSets, TLC

VARIABLES
    github_token,   \* TRUE iff GITHUB_TOKEN is set in the environment
    issues,         \* the tracker's open issues: id -> [repo, text]
    comments,       \* the tracker's comments: id -> sequence of comment kinds
    run,            \* per invocation of process_issues: position and history
    in_title,       \* classifier check: the title handed to analyze_request
    in_body,        \* classifier check: the body handed to analyze_request
    out             \* classifier check: what analyze_request returned

vars == <<github_token, issues, comments, run, in_title, in_body, out>>

----------------------------------------------------------------------------
(* Bounds of the model.                                                    *)

\* open issues in the tracker, over all repositories
MaxIssues == 2

\* words in a title handed to the classifier check
MaxTitleWords == 2

(* Program constants.                                                      *)

\* the home repository, scanned first and unconditionally
Home == 0

\* len(repos_to_monitor)
NumWatched == 3

Watched == 1..NumWatched

AllRepos == {Home} \cup Watched

----------------------------------------------------------------------------
(* Text.                                                                   *)

None == <<>>

Some(s) == <<s>>

Space == <<" ">>

UpperToLower ==
    [A |-> "a", B |-> "b", C |-> "c", D |-> "d", E |-> "e", F |-> "f",
     G |-> "g", H |-> "h", I |-> "i", J |-> "j", K |-> "k", L |-> "l",
     M |-> "m", N |-> "n", O |-> "o", P |-> "p", Q |-> "q", R |-> "r",
     S |-> "s", T |-> "t", U |-> "u", V |-> "v", W |-> "w", X |-> "x",
     Y |-> "y", Z |-> "z"]

\* str.lower()
Lower(s) ==
    [k \in 1..Len(s) |->
        IF s[k] \in DOMAIN UpperToLower THEN UpperToLower[s[k]] ELSE s[k]]

\* needle in hay
Contains(hay, needle) ==
    \E k \in 0..(Len(hay) - Len(needle)) :
        SubSeq(hay, k + 1, k + Len(needle)) = needle

\* any(word in text for word in words)
AnyIn(words, text) == \E k \in 1..Len(words) : Contains(text, words[k])

\* issue.title.lower() + ' ' + issue.body.lower(), for a body that is a string
LoweredText(title, body) == Lower(title) \o Space \o Lower(body[1])

----------------------------------------------------------------------------
(* The classifier.                                                         *)

ProductWords == << <<"p", "r", "o", "d", "u", "c", "t">>, <<"s", "y", "n", "c">>, <<"v", "a", "r", "i", "a", "n", "t">>, <<"c", "o", "l", "o", "r">> >>

OrderWords == << <<"o", "r", "d", "e", "r">>, <<"w", "e", "b", "h", "o", "o", "k">>, <<"r", "e", "a", "l", "-", "t", "i", "m", "e">> >>

JobWords == << <<"j", "o", "b">>, <<"q", "u", "e", "u", "e">>, <<"a", "s", "y", "n", "c">>, <<"b", "a", "c", "k", "g", "r", "o", "u", "n", "d">> >>

ConfigWords == << <<"c", "o", "n", "f", "i", "g">>, <<"s", "e", "t", "u", "p">>, <<"w", "e", "b", "h", "o", "o", "k">>, <<"a", "p", "i">> >>

RelevanceWords ==
    << <<"w", "o", "o", "c", "o", "m", "m", "e", "r", "c", "e">>, <<"e", "c", "o", "m", "m", "e", "r", "c", "e">>, <<"e", "-", "c", "o", "m", "m", "e", "r", "c", "e">>,
       <<"o", "n", "l", "i", "n", "e", " ", "s", "t", "o", "r", "e">>, <<"w", "e", "b", "h", "o", "o", "k">>, <<"s", "h", "o", "p", " ", "s", "y", "n", "c">>,
       <<"p", "r", "o", "d", "u", "c", "t", " ", "s", "y", "n", "c">> >>

Marker == <<"W", "o", "o", "C", "o", "m", "m", "e", "r", "c", "e", " ", "S", "y", "n", "c", " ", "C", "o", "o", "r", "d", "i", "n", "a", "t", "o", "r">>

Responses == {"product_sync", "order_sync", "job_queue", "configuration", "general"}

\* what analyze_request ends in when issue_body is None: None has no lower()
AttributeError == "AttributeError"

\* the first line of each response template, and two comments people write
CommentBody(kind) ==
    CASE kind = "product_sync" ->
           <<"#", "#", " ", "W", "o", "o", "C", "o", "m", "m", "e", "r", "c", "e", " ", "S", "y", "n", "c", " ", "C", "o", "o", "r", "d", "i", "n", "a", "t", "o", "r", " ", "R", "e", "s", "p", "o", "n", "s", "e", " ", "-", " ", "P", "r", "o", "d", "u", "c", "t", " ", "S", "y", "n", "c", "h", "r", "o", "n", "i", "z", "a", "t", "i", "o", "n">>
      [] kind = "order_sync" ->
           <<"#", "#", " ", "W", "o", "o", "C", "o", "m", "m", "e", "r", "c", "e", " ", "S", "y", "n", "c", " ", "C", "o", "o", "r", "d", "i", "n", "a", "t", "o", "r", " ", "R", "e", "s", "p", "o", "n", "s", "e", " ", "-", " ", "O", "r", "d", "e", "r", " ", "M", "a", "n", "a", "g", "e", "m", "e", "n", "t">>
      [] kind = "job_queue" ->
           <<"#", "#", " ", "W", "o", "o", "C", "o", "m", "m", "e", "r", "c", "e", " ", "S", "y", "n", "c", " ", "C", "o", "o", "r", "d", "i", "n", "a", "t", "o", "r", " ", "R", "e", "s", "p", "o", "n", "s", "e", " ", "-", " ", "J", "o", "b", " ", "Q", "u", "e", "u", "e", " ", "S", "y", "s", "t", "e", "m">>
      [] kind = "configuration" ->
           <<"#", "#", " ", "W", "o", "o", "C", "o", "m", "m", "e", "r", "c", "e", " ", "S", "y", "n", "c", " ", "C", "o", "o", "r", "d", "i", "n", "a", "t", "o", "r", " ", "R", "e", "s", "p", "o", "n", "s", "e", " ", "-", " ", "C", "o", "n", "f", "i", "g", "u", "r", "a", "t", "i", "o", "n", " ", "G", "u", "i", "d", "e">>
      [] kind = "general" ->
           <<"#", "#", " ", "W", "o", "o", "C", "o", "m", "m", "e", "r", "c", "e", " ", "S", "y", "n", "c", " ", "C", "o", "o", "r", "d", "i", "n", "a", "t", "o", "r", " ", "R", "e", "s", "p", "o", "n", "s", "e">>
      [] kind = "plain" ->
           <<"A", "n", "y", " ", "u", "p", "d", "a", "t", "e", " ", "o", "n", " ", "t", "h", "i", "s", "?">>
      [] kind = "quote" ->
           <<">", " ", "W", "o", "o", "C", "o", "m", "m", "e", "r", "c", "e", " ", "S", "y", "n", "c", " ", "C", "o", "o", "r", "d", "i", "n", "a", "t", "o", "r", " ", "R", "e", "s", "p", "o", "n", "s", "e", " ", "-", " ", "i", "s", " ", "t", "h", "i", "s", " ", "s", "t", "i", "l", "l", " ", "v", "a", "l", "i", "d", "?">>

CommentKinds == Responses \cup {"plain", "quote"}

\* a faulty variant of analyze_request: the job-queue test comes before the order test
analyze_request_job_first(issue_title, issue_body) ==
    IF issue_body = None THEN AttributeError
    ELSE LET text == LoweredText(issue_title, issue_body) IN
         IF AnyIn(ProductWords, text) THEN "product_sync"
         ELSE IF AnyIn(JobWords, text) THEN "job_queue"
         ELSE IF AnyIn(OrderWords, text) THEN "order_sync"
         ELSE IF AnyIn(ConfigWords, text) THEN "configuration"
         ELSE "general"

analyze_request(issue_title, issue_body) ==
    IF issue_body = None THEN AttributeError
    ELSE LET text == LoweredText(issue_title, issue_body) IN
         IF AnyIn(ProductWords, text) THEN "product_sync"
         ELSE IF AnyIn(OrderWords, text) THEN "order_sync"
         ELSE IF AnyIn(JobWords, text) THEN "job_queue"
         ELSE IF AnyIn(ConfigWords, text) THEN "configuration"
         ELSE "general"

\* a faulty variant of RelevantIssue: the filter lets every issue through
RelevantIssueAlways(title, body) == TRUE

\* the condition of line 381, for a body that is a string
RelevantIssue(title, body) == AnyIn(RelevanceWords, LoweredText(title, body))

\* 'WooCommerce Sync Coordinator' in comment.body, for each kind of comment
MarkerIn == [kind \in CommentKinds |-> Contains(CommentBody(kind), Marker)]

\* a faulty variant of already_responded: only the first comment is looked at
already_responded_first_only(cs) == cs # <<>> /\ MarkerIn[cs[1]]

\* a faulty variant of already_responded: the marker is never found
already_responded_never(cs) == FALSE

already_responded(cs) == \E k \in 1..Len(cs) : MarkerIn[cs[k]]

----------------------------------------------------------------------------
(* The tracker.                                                            *)

\* the texts an open issue may carry: [title, body]
Pool ==
    << [title |-> <<"W", "o", "o", "C", "o", "m", "m", "e", "r", "c", "e", " ", "w", "e", "b", "h", "o", "o", "k", " ", "s", "e", "t", "u", "p">>,
        body  |-> Some(<<"O", "r", "d", "e", "r", "s", " ", "d", "o", " ", "n", "o", "t", " ", "a", "r", "r", "i", "v", "e", " ", "i", "n", " ", "O", "d", "o", "o">>)],
       [title |-> <<"Q", "u", "e", "u", "e", " ", "j", "o", "b", " ", "s", "t", "u", "c", "k">>,
        body  |-> Some(<<>>)],
       [title |-> <<"P", "r", "o", "d", "u", "c", "t", " ", "v", "a", "r", "i", "a", "n", "t", " ", "s", "y", "n", "c", " ", "f", "a", "i", "l", "s", " ", "f", "o", "r", " ", "c", "o", "l", "o", "r", "s">>,
        body  |-> None] >>

Texts == 1..Len(Pool)

\* the comments an issue may carry before the first run
InitialComments == {<<>>, <<"plain">>, <<"quote">>}

Issues == 1..MaxIssues

\* analyze_request(issue.title, issue.body) for each text of the pool
PoolResponse == [t \in Texts |-> analyze_request(Pool[t].title, Pool[t].body)]

\* the relevance condition for each text of the pool whose body is a string
PoolRelevant ==
    [t \in Texts |->
        IF Pool[t].body = None THEN FALSE
        ELSE RelevantIssue(Pool[t].title, Pool[t].body)]

\* repo.get_issues(state='open'): the open issues of repository r, in the
\* tracker's order
Listing(r) == SelectSeq([i \in Issues |-> i], LAMBDA i : issues[i].repo = r)

----------------------------------------------------------------------------
(* One invocation of process_issues.                                       *)

Runs == {"A", "B"}

\* the external scheduler runs one invocation at a time
SerialRuns == {"A"}

CollabErrors == {"fetch", "comments", "create"}

IdleRun ==
    [pc        |-> "idle",
     repo      |-> Home,
     todo      |-> <<>>,
     cur       |-> 0,
     resp      |-> "none",
     clear     |-> TRUE,
     visited   |-> {},
     errors    |-> [r \in AllRepos |-> "ok"],
     handled   |-> {},
     created   |-> {},
     posted    |-> {},
     hadMarker |-> {},
     prev      |-> "none"]

\* the loop over repos_to_monitor moves on, or process_issues returns
NextRepo(rec) ==
    IF rec.repo < NumWatched
    THEN [rec EXCEPT !.pc = "fetch", !.repo = @ + 1, !.todo = <<>>, !.cur = 0]
    ELSE [rec EXCEPT !.pc = "returned", !.todo = <<>>, !.cur = 0]

\* an exception while repository rec.repo is processed: the home repository
\* is inside the outer try only, a watched one inside the inner try
Raise(rec, kind) ==
    IF rec.repo = Home
    THEN [rec EXCEPT !.errors[rec.repo] = kind, !.pc = "returned",
                     !.todo = <<>>, !.cur = 0]
    ELSE NextRepo([rec EXCEPT !.errors[rec.repo] = kind])

\* the for loop over the issues still to come of the current repository, up
\* to the next call of already_responded
RECURSIVE Iterate(_)
Iterate(rec) ==
    IF rec.todo = <<>> THEN NextRepo(rec)
    ELSE LET i  == Head(rec.todo)
             at == [rec EXCEPT !.todo = Tail(@), !.cur = i,
                               !.handled = @ \cup {i}]
         IN  IF rec.repo = Home THEN [at EXCEPT !.pc = "check"]
             ELSE IF Pool[issues[i].text].body = None
                  THEN Raise(at, AttributeError)
             ELSE IF PoolRelevant[issues[i].text]
                  THEN [at EXCEPT !.pc = "check"]
             ELSE Iterate(at)

\* the history of the run that ended, as the next run sees it
Previous(rec) ==
    IF rec.pc = "idle" THEN "none"
    ELSE IF \E r \in AllRepos : rec.errors[r] \in CollabErrors THEN "failed"
    ELSE "clean"

Begin(p) ==
    LET fresh == [IdleRun EXCEPT
                    !.prev = Previous(run[p]),
                    !.hadMarker = {i \in Issues :
                                     \E k \in 1..Len(comments[i]) :
                                        MarkerIn[comments[i][k]]}]
    IN  /\ run' = [run EXCEPT ![p] =
                     IF github_token THEN [fresh EXCEPT !.pc = "fetch"]
                     ELSE [fresh EXCEPT !.pc = "returned"]]
        /\ UNCHANGED <<github_token, issues, comments, in_title, in_body, out>>

\* main() calls process_issues; the scheduler calls main() again later
Start(p) ==
    /\ run[p].pc \in {"idle", "returned"}
    /\ Begin(p)

\* main() calls process_issues, once
StartOnce(p) ==
    /\ run[p].pc = "idle"
    /\ Begin(p)

\* get_repo and get_issues answer
FetchIssues(p) ==
    /\ run[p].pc = "fetch"
    /\ run' = [run EXCEPT ![p] =
                 Iterate([run[p] EXCEPT !.visited = @ \cup {run[p].repo},
                                        !.todo = Listing(run[p].repo)])]
    /\ UNCHANGED <<github_token, issues, comments, in_title, in_body, out>>

\* get_repo or get_issues raises
FetchFails(p) ==
    /\ run[p].pc = "fetch"
    /\ run' = [run EXCEPT ![p] =
                 Raise([run[p] EXCEPT !.visited = @ \cup {run[p].repo}], "fetch")]
    /\ UNCHANGED <<github_token, issues, comments, in_title, in_body, out>>

\* issue.get_comments() answers: already_responded, then analyze_request
CheckComments(p) ==
    /\ run[p].pc = "check"
    /\ LET i    == run[p].cur
           resp == PoolResponse[issues[i].text]
           seen == [run[p] EXCEPT
                      !.clear = ~ \E k \in 1..Len(comments[i]) :
                                     MarkerIn[comments[i][k]]]
       IN  run' = [run EXCEPT ![p] =
                     IF already_responded(comments[i]) THEN Iterate(seen)
                     ELSE IF resp = AttributeError
                          THEN Raise([seen EXCEPT !.resp = resp], AttributeError)
                     ELSE [seen EXCEPT !.pc = "post", !.resp = resp]]
    /\ UNCHANGED <<github_token, issues, comments, in_title, in_body, out>>

\* issue.get_comments() raises
CheckFails(p) ==
    /\ run[p].pc = "check"
    /\ run' = [run EXCEPT ![p] = Raise(run[p], "comments")]
    /\ UNCHANGED <<github_token, issues, comments, in_title, in_body, out>>

\* issue.create_comment(response) answers
PostComment(p) ==
    /\ run[p].pc = "post"
    /\ LET i == run[p].cur IN
       /\ comments' = [comments EXCEPT ![i] = Append(@, run[p].resp)]
       /\ run' = [run EXCEPT ![p] =
                    Iterate([run[p] EXCEPT !.created = @ \cup {i},
                                           !.posted = @ \cup {i}])]
    /\ UNCHANGED <<github_token, issues, in_title, in_body, out>>

\* issue.create_comment(response) raises; the tracker may have stored the
\* comment all the same (the answer was lost)
PostFails(p) ==
    /\ run[p].pc = "post"
    /\ \E delivered \in BOOLEAN :
         LET i == run[p].cur IN
         /\ comments' = IF delivered
                        THEN [comments EXCEPT ![i] = Append(@, run[p].resp)]
                        ELSE comments
         /\ run' = [run EXCEPT ![p] =
                      Raise([run[p] EXCEPT
                               !.created = @ \cup {i},
                               !.posted = IF delivered THEN @ \cup {i} ELSE @],
                            "create")]
    /\ UNCHANGED <<github_token, issues, in_title, in_body, out>>

----------------------------------------------------------------------------
(* The classifier on its own.                                              *)

Vocabulary ==
    { <<"o", "r", "d", "e", "r">>, <<"J", "O", "B">>, <<"w", "e", "b", "h", "o", "o", "k">>, <<"s", "e", "t", "u", "p">>,
      <<"P", "r", "o", "d", "u", "c", "t">>, <<"q", "u", "e", "u", "e">>, <<"A", "P", "I">>, <<"h", "e", "l", "l", "o">>,
      <<"R", "e", "a", "l", "-", "T", "i", "m", "e">>, <<"a", "s", "y", "n", "c">> }

\* the words of a title, joined by spaces
RECURSIVE Join(_)
Join(ws) ==
    IF ws = <<>> THEN <<>>
    ELSE IF Len(ws) = 1 THEN ws[1]
    ELSE ws[1] \o Space \o Join(Tail(ws))

Titles ==
    UNION {[1..n -> Vocabulary] : n \in 1..MaxTitleWords}

Bodies == {None, Some(<<>>)} \cup {Some(w) : w \in Vocabulary}

Classify ==
    /\ out = "pending"
    /\ out' = analyze_request(Join(in_title), in_body)
    /\ UNCHANGED <<github_token, issues, comments, run, in_title, in_body>>

----------------------------------------------------------------------------
(* Specifications.                                                         *)

TrackerInit ==
    /\ github_token \in BOOLEAN
    /\ issues \in {f \in [Issues -> [repo : AllRepos, text : Texts]] :
                     \A i, j \in Issues : i < j => f[i].repo <= f[j].repo}
    /\ comments \in [Issues -> InitialComments]
    /\ run = [p \in Runs |-> IdleRun]

Init ==
    /\ TrackerInit
    /\ in_title = <<>>
    /\ in_body = None
    /\ out = "unused"

\* runs of process_issues one after the other, any call of the tracker may fail
Next ==
    \E p \in SerialRuns :
        \/ Start(p)
        \/ FetchIssues(p)
        \/ FetchFails(p)
        \/ CheckComments(p)
        \/ CheckFails(p)
        \/ PostComment(p)
        \/ PostFails(p)

Spec == Init /\ [][Next]_vars

\* two runs of process_issues at once, the tracker answering every call
NextConc ==
    \E p \in Runs :
        \/ StartOnce(p)
        \/ FetchIssues(p)
        \/ CheckComments(p)
        \/ PostComment(p)

SpecConc == Init /\ [][NextConc]_vars

InitClassify ==
    /\ github_token = FALSE
    /\ issues = [i \in Issues |-> [repo |-> Home, text |-> 1]]
    /\ comments = [i \in Issues |-> <<>>]
    /\ run = [p \in Runs |-> IdleRun]
    /\ in_title \in Titles
    /\ in_body \in Bodies
    /\ out = "pending"

NextClassify == Classify

SpecClassify == InitClassify /\ [][NextClassify]_vars

----------------------------------------------------------------------------
(* What the properties below speak of.                                     *)

\* issue i carries a comment whose body contains the marker
Marked(i) == \E k \in 1..Len(comments[i]) : MarkerIn[comments[i][k]]

\* the comments on issue i that the coordinator wrote
BotCount(i) == Cardinality({k \in 1..Len(comments[i]) : comments[i][k] \in Responses})

\* run p calls create_comment on issue i in this step
CreateCalled(p, i) ==
    /\ run[p].pc = "post"
    /\ run[p].cur = i
    /\ run'[p] # run[p]

\* the e-commerce keywords of the relevance filter
EcommerceKeywords ==
    { <<"w", "o", "o", "c", "o", "m", "m", "e", "r", "c", "e">>, <<"e", "c", "o", "m", "m", "e", "r", "c", "e">>, <<"e", "-", "c", "o", "m", "m", "e", "r", "c", "e">>,
      <<"o", "n", "l", "i", "n", "e", " ", "s", "t", "o", "r", "e">>, <<"w", "e", "b", "h", "o", "o", "k">>, <<"s", "h", "o", "p", " ", "s", "y", "n", "c">>,
      <<"p", "r", "o", "d", "u", "c", "t", " ", "s", "y", "n", "c">> }

\* the lower-cased title and body of each text of the pool, an absent body
\* read as the empty text
PoolLowered ==
    [t \in Texts |->
        Lower(Pool[t].title) \o Space \o
        (IF Pool[t].body = None THEN <<>> ELSE Lower(Pool[t].body[1]))]

\* the texts of the pool that contain an e-commerce keyword
PoolMentions ==
    [t \in Texts |-> \E w \in EcommerceKeywords : Contains(PoolLowered[t], w)]

\* issue i is one the dispatcher is to answer
Qualifies(i) ==
    \/ issues[i].repo = Home
    \/ PoolMentions[issues[i].text]

\* no call of the tracker failed during the run
NoCollabError(rec) == \A r \in AllRepos : rec.errors[r] \notin CollabErrors

\* the keyword sets of the categories, in priority order
CategoryKeywords ==
    << { <<"p", "r", "o", "d", "u", "c", "t">>, <<"s", "y", "n", "c">>, <<"v", "a", "r", "i", "a", "n", "t">>, <<"c", "o", "l", "o", "r">> },
       { <<"o", "r", "d", "e", "r">>, <<"w", "e", "b", "h", "o", "o", "k">>, <<"r", "e", "a", "l", "-", "t", "i", "m", "e">> },
       { <<"j", "o", "b">>, <<"q", "u", "e", "u", "e">>, <<"a", "s", "y", "n", "c">>, <<"b", "a", "c", "k", "g", "r", "o", "u", "n", "d">> },
       { <<"c", "o", "n", "f", "i", "g">>, <<"s", "e", "t", "u", "p">>, <<"w", "e", "b", "h", "o", "o", "k">>, <<"a", "p", "i">> } >>

Priority == <<"product_sync", "order_sync", "job_queue", "configuration">>

\* the first category, in priority order, with a keyword occurring in text
FirstMatch(text) ==
    LET hits == {k \in 1..Len(Priority) :
                   \E w \in CategoryKeywords[k] : Contains(text, w)}
    IN  IF hits = {} THEN "general"
        ELSE Priority[CHOOSE k \in hits : \A j \in hits : k <= j]

\* the text the classifier check handed over, lower-cased
InText == Lower(Join(in_title)) \o Space \o Lower(in_body[1])

----------------------------------------------------------------------------
(* Properties.                                                             *)

\* C1: over serialized runs and any failures of the tracker, no run calls
\* create_comment on an issue that carries a marker comment, and no issue
\* ever carries more than one comment of the coordinator.
C1_AtMostOnce ==
    [][\A p \in Runs, i \in Issues :
          /\ Marked(i) => ~CreateCalled(p, i)
          /\ BotCount(i)' <= 1]_vars

\* C1 witness: a run that followed a failed run has gone past an issue the
\* coordinator had already commented on.
C1_Witness ==
    /\ run["A"].pc = "returned"
    /\ run["A"].prev = "failed"
    /\ \E i \in Issues :
          /\ BotCount(i) = 1
          /\ i \in run["A"].handled
          /\ i \in run["A"].hadMarker

\* C2: when a run has returned (no call of the tracker having failed), every
\* qualifying issue that had no marker comment before the run carries
\* exactly one comment of the coordinator.
C2_OnePerQualifying ==
    \A p \in SerialRuns :
        (run[p].pc = "returned" /\ github_token /\ NoCollabError(run[p])) =>
            \A i \in Issues :
                (Qualifies(i) /\ i \notin run[p].hadMarker) => BotCount(i) = 1

C4_FirstMatchWins ==
    (out \in Responses \cup {AttributeError} /\ in_body # None) =>
        /\ out = FirstMatch(InText)
        /\ (~ \E w \in CategoryKeywords[1] : Contains(InText, w)) =>
              /\ (Contains(InText, <<"o", "r", "d", "e", "r">>) /\ Contains(InText, <<"j", "o", "b">>))
                    => out = "order_sync"
              /\ Contains(InText, <<"w", "e", "b", "h", "o", "o", "k">>) => out = "order_sync"

\* C4 witness: a text with both 'order' and 'job' has been classified.
C4_Witness ==
    /\ out = "order_sync"
    /\ in_body # None
    /\ Contains(InText, <<"o", "r", "d", "e", "r">>)
    /\ Contains(InText, <<"j", "o", "b">>)

\* C5: analyze_request never ends in an error on what the dispatcher hands it.
C5_ClassifierTotal ==
    \A p \in SerialRuns : run[p].resp # AttributeError

\* C6: an issue of a watched repository whose text has none of the
\* e-commerce keywords never gets a comment.
C6_FilteredNeverCommented ==
    [][\A i \in Issues :
          (issues[i].repo \in Watched /\ ~PoolMentions[issues[i].text])
              => comments'[i] = comments[i]]_vars

\* C6 witness: a run went past a watched issue without the keywords that
\* already had a comment, and answered a home issue without the keywords.
C6_Witness ==
    /\ run["A"].pc = "returned"
    /\ \E i, j \in Issues :
          /\ issues[i].repo \in Watched
          /\ Pool[issues[i].text].body # None
          /\ ~PoolMentions[issues[i].text]
          /\ comments[i] = <<"plain">>
          /\ i \in run["A"].handled
          /\ issues[j].repo = Home
          /\ ~PoolMentions[issues[j].text]
          /\ j \in run["A"].posted

\* C7: when a run has returned and the fetch of a watched repository failed
\* in it, every later watched repository (no call of the tracker having
\* failed there) was visited and has each of its qualifying, unmarked issues
\* answered by this run.
C7_LaterReposAnswered ==
    \A p \in SerialRuns :
        run[p].pc = "returned" =>
            \A r, s \in Watched :
                (/\ run[p].errors[r] = "fetch"
                 /\ r < s
                 /\ run[p].errors[s] \notin CollabErrors) =>
                    /\ s \in run[p].visited
                    /\ \A i \in Issues :
                          (/\ issues[i].repo = s
                           /\ PoolMentions[issues[i].text]
                           /\ i \notin run[p].hadMarker)
                              => (i \in run[p].posted /\ BotCount(i) = 1)

\* C7, the part that holds: when a run has returned and the fetch of a watched
\* repository failed in it, every later watched repository was visited.
C7_LaterReposVisited ==
    \A p \in SerialRuns :
        run[p].pc = "returned" =>
            \A r, s \in Watched :
                (run[p].errors[r] = "fetch" /\ r < s) => s \in run[p].visited

\* C8: a run that starts with the credential set has visited the home
\* repository and every watched repository when it returns.
C8_VisitsAllTargets ==
    \A p \in SerialRuns :
        (run[p].pc = "returned" /\ github_token) => run[p].visited = AllRepos

\* C9: when a run has returned, every open issue of a repository whose
\* issues it fetched was reached by the loop.
C9_IssueIsolation ==
    \A p \in SerialRuns :
        run[p].pc = "returned" =>
            \A i \in Issues :
                (/\ issues[i].repo \in run[p].visited
                 /\ run[p].errors[issues[i].repo] # "fetch")
                    => i \in run[p].handled

\* C10: with two runs at once, a run is about to post only after a read of
\* the comments that showed no marker; an issue with two comments of the
\* coordinator got one from each run.
C10_DoubleOnlyByRace ==
    /\ \A p \in Runs : run[p].pc = "post" => run[p].clear
    /\ \A i \in Issues :
          /\ BotCount(i) <= Cardinality(Runs)
          /\ BotCount(i) > 1 => \A p \in Runs : i \in run[p].posted

\* C10 witness: one issue carries two comments of the coordinator.
C10_Witness == \E i \in Issues : BotCount(i) = 2

====
